---- MODULE Spec2Model ----
(***************************************************************************)
(* The frame loop of dot-engine (src/dot-engine/src/main.rs) and its       *)
(* compute kernel (src/dot-engine/shader/src/lib.rs).                      *)
(*                                                                         *)
(* The CPU side is the winit event closure of main and Renderer::run: one  *)
(* action per window event, each the whole handler.  The GPU and the       *)
(* presentation engine run asynchronously: they are actions of their own   *)
(* that complete the operations of the submitted futures in an order the   *)
(* future chain built by run allows.  What vulkano and the driver answer   *)
(* (recreate, acquire_next_image, the unwraps while recording,             *)
(* then_execute, then_signal_fence_and_flush) is chosen nondeterministically*)
(* from the results the code distinguishes.                                *)
(***************************************************************************)
EXTENDS Integers, Sequences, FiniteSets, TLC

\* ---------------------------------------------------------------- bounds
\* Largest window width and height (window.inner_size()), in pixels.
MaxWidth == 2
MaxHeight == 1
\* Largest number of Surface rebuilds followed.
MaxGen == 1
\* Largest number of submissions kept on the device queue.
MaxInFlight == 2
\* Largest surface_capabilities.min_image_count the device reports.
MaxCapMin == 1
\* Largest dispatch grid of the kernel specification.
MaxGridW == 4
MaxGridH == 2
\* Largest number of physical devices the instance enumerates.
MaxDevices == 2

\* ------------------------------------------------------ program constants
\* min_image_count: surface_capabilities.min_image_count.max(2)
MinImages == 2

VARIABLES
    proc,                \* "running", "exited" (elwt.exit) or "panicked"
    redraw_requested,    \* window.request_redraw() was called and not yet served
    recreate_swapchain,  \* Renderer.recreate_swapchain, the Dirty Flag
    swapchain,           \* Renderer.swapchain, the Surface
    images,              \* Renderer.images, the Surface's Frame Images
    previous_frame_end,  \* Renderer.previous_frame_end, the In-Flight Token slot
    queue,               \* submissions on the device queue not yet cleaned up
    last,                \* what the last step did
    work_groups,         \* kernel: num_workgroups of the dispatch being executed
    pixels,              \* kernel: the image.write calls made so far
    devices,             \* instance.enumerate_physical_devices()
    selected             \* (physical_device, queue_family_index) of Renderer::new

vars == <<proc, redraw_requested, recreate_swapchain, swapchain, images,
          previous_frame_end, queue, last, work_groups, pixels, devices,
          selected>>

driver == <<proc, redraw_requested, recreate_swapchain, swapchain, images,
            previous_frame_end, queue, last>>

Max(a, b) == IF a >= b THEN a ELSE b

Extents == (0 .. MaxWidth) \X (0 .. MaxHeight)

\* image_extent.contains(&0)
ContainsZero(image_extent) == image_extent[1] = 0 \/ image_extent[2] = 0

\* ----------------------------------------------------------------- tokens
\* vulkano::sync::now(device).boxed(): a future that is already complete.
Now == [kind |-> "now", id |-> 0]
\* future.boxed() of the flushed chain of submission id.
FenceToken(id) == [kind |-> "fence", id |-> id]
\* A flushed future that cleanup_finished found signalled and released.
Cleaned == [kind |-> "cleaned", id |-> 0]
\* Option::None, the slot between take() and the assignment that refills it.
None == [kind |-> "none", id |-> 0]

\* ---------------------------------------------------------- step records
LogNone ==
    [ev |-> "init", extent |-> <<0, 0>>, dirty_before |-> FALSE,
     skipped |-> FALSE, rebuilt |-> FALSE, acquire |-> "none",
     suboptimal |-> FALSE, index |-> 0, index_gen |-> 0, view_gen |-> 0,
     present_gen |-> 0, view_index |-> 0, present_index |-> 0,
     submissions |-> 0, presents |-> 0, grid |-> <<0, 0, 0>>,
     image_extent |-> <<0, 0>>, taken |-> None, flush |-> "none",
     fatal |-> "none"]

\* What one handler works on: the Renderer's fields, the device queue, and the
\* record of the step; ret is set by an early return of run.
Renderer ==
    [proc |-> proc, recreate_swapchain |-> recreate_swapchain,
     swapchain |-> swapchain, images |-> images,
     previous_frame_end |-> previous_frame_end, queue |-> queue,
     ret |-> FALSE, blocked |-> FALSE,
     log |-> [LogNone EXCEPT !.ev = "redraw",
                             !.dirty_before = recreate_swapchain]]

\* The Renderer of a process that has ended: nothing of it remains.
Gone(r, how) ==
    [r EXCEPT !.proc = how, !.recreate_swapchain = FALSE,
              !.swapchain = [@ EXCEPT !.gen = 0, !.image_extent = <<0, 0>>],
              !.images = [@ EXCEPT !.gen = 0],
              !.previous_frame_end = None, !.queue = << >>]

\* unwrap / expect / panic!: the process aborts where it stands.
Panic(r, where) == [Gone(r, "panicked") EXCEPT !.log.fatal = where]

Live(r) == r.proc = "running" /\ ~r.ret /\ ~r.blocked

\* ------------------------------------------------------------ the device
\* A token is complete when it is `now`, was cleaned up, or its fence has
\* been signalled.
TokenSignalled(tok, q) ==
    \/ tok.kind \in {"now", "cleaned"}
    \/ /\ tok.kind = "fence"
       /\ \A k \in 1 .. Len(q) : q[k].id = tok.id => "fence" \in q[k].done

\* Flushed futures are named by their place on the queue.
NewId(q) == Len(q) + 1

\* The images of a swapchain that acquire_next_image can hand out: those with
\* no submission of that swapchain still to present them.
FreeImages(q, sc, imgs) ==
    {i \in 0 .. imgs.count - 1 :
        \A k \in 1 .. Len(q) :
            (q[k].gen = sc.gen /\ q[k].index = i) => "present" \in q[k].done}

\* The operation of a flushed future that the device performs next.
NextOp(s) ==
    LET todo == {k \in 1 .. Len(s.then) : s.then[k] \notin s.done}
    IN  IF todo = {} THEN "none"
        ELSE s.then[CHOOSE k \in todo : \A j \in todo : k <= j]

\* Whether the device may perform op of submission s now.  A GpuFuture is a
\* point in time on the device: `a.join(b)` is reached when both are, and
\* `f.then_x(..)` performs x after f is reached.  So the operations of a
\* chain run in the chain's order, the first of them once everything the
\* chain joined is reached.
MayRun(s, op, q) ==
    /\ op # "none"
    /\ op = s.then[1] =>
          /\ TokenSignalled(s.join.previous, q)
          /\ s.join.acquire => "acquire" \in s.done

\* ------------------------------------------------------- Renderer::run
\* self.previous_frame_end.as_mut().unwrap().cleanup_finished(): non-blocking,
\* releases what the device has finished.
CleanupFinished(q) == SelectSeq(q, LAMBDA s : "fence" \notin s.done)

\* A future whose fence was found signalled is left in the chain as cleaned;
\* the others are named by their new place on the queue.
CleanToken(tok, q) ==
    IF tok.kind # "fence" THEN tok
    ELSE IF "fence" \in q[tok.id].done THEN Cleaned
    ELSE FenceToken(Cardinality({k \in 1 .. tok.id : "fence" \notin q[k].done}))

StepCleanup(r) ==
    IF r.previous_frame_end.kind = "none" THEN Panic(r, "unwrap")
    ELSE LET kept == CleanupFinished(r.queue)
         IN  [r EXCEPT
                !.queue = [k \in 1 .. Len(kept) |->
                             [kept[k] EXCEPT
                                !.id = k,
                                !.join.previous = CleanToken(@, r.queue)]],
                !.previous_frame_end = CleanToken(@, r.queue)]

\* Mutant of Recreate: recreates with the old create_info, extent included.
RecreateSameExtent(sc, image_extent) == [sc EXCEPT !.gen = @ + 1]

\* Mutant of Recreate: the rest of the create info is the default one, not
\* the old swapchain's.
RecreateFromDefault(sc, image_extent) ==
    [sc EXCEPT !.gen = @ + 1, !.image_extent = image_extent,
               !.image_format = "UNDEFINED", !.image_usage = "empty"]

\* self.swapchain.recreate(SwapchainCreateInfo { image_extent,
\*     ..self.swapchain.create_info() })
Recreate(sc, image_extent) ==
    [sc EXCEPT !.gen = @ + 1, !.image_extent = image_extent]

\* The images a swapchain is created with.
NewImages(sc) == [gen |-> sc.gen, count |-> sc.min_image_count]

\* Mutant of Rebuilt: keeps the images of the old swapchain.
RebuiltKeepsImages(r, new_swapchain, new_images) ==
    [r EXCEPT !.swapchain = new_swapchain,
              !.recreate_swapchain = FALSE, !.log.rebuilt = TRUE]

\* self.images = new_images; self.swapchain = new_swapchain;
\* self.recreate_swapchain = false;
Rebuilt(r, new_swapchain, new_images) ==
    [r EXCEPT !.images = new_images, !.swapchain = new_swapchain,
              !.recreate_swapchain = FALSE, !.log.rebuilt = TRUE]

StepRecreate(r, image_extent, o) ==
    IF ~Live(r) \/ ~r.recreate_swapchain THEN r
    ELSE IF o.recreate = "Err" THEN Panic(r, "recreate")
    ELSE LET new_swapchain == Recreate(r.swapchain, image_extent)
         IN  Rebuilt(r, new_swapchain, NewImages(new_swapchain))

\* Mutant of AcquireOutOfDate: sets the flag and goes on without returning.
AcquireOutOfDateNoReturn(r) == [r EXCEPT !.recreate_swapchain = TRUE]

\* Mutant of AcquireOutOfDate: returns without setting the flag.
AcquireOutOfDateNoFlag(r) == [r EXCEPT !.ret = TRUE]

\* Err(VulkanError::OutOfDate) => { self.recreate_swapchain = true; return; }
AcquireOutOfDate(r) ==
    [r EXCEPT !.recreate_swapchain = TRUE, !.ret = TRUE]

\* acquire_next_image(self.swapchain.clone(), None): blocks, with no timeout,
\* until an image of the swapchain is free.
StepAcquire(r, o) ==
    IF ~Live(r) THEN r
    ELSE LET r1 == [r EXCEPT !.log.acquire = o.acquire]
         IN  CASE o.acquire = "OutOfDate" -> AcquireOutOfDate(r1)
               [] o.acquire = "Err" -> Panic(r1, "acquire")
               [] OTHER ->
                    IF o.index \notin FreeImages(r.queue, r.swapchain, r.images)
                    THEN [r EXCEPT !.blocked = TRUE]
                    ELSE [r1 EXCEPT !.log.index = o.index,
                                    !.log.index_gen = r.swapchain.gen,
                                    !.log.suboptimal = o.suboptimal]

\* Mutant of StepSuboptimal: the suboptimal answer is ignored.
StepSuboptimalIgnored(r) == r

\* if suboptimal { self.recreate_swapchain = true; }
StepSuboptimal(r) ==
    IF Live(r) /\ r.log.suboptimal
    THEN [r EXCEPT !.recreate_swapchain = TRUE]
    ELSE r

\* .dispatch([image_extent[0], image_extent[1], 1])
Dispatch(image_extent) == <<image_extent[1], image_extent[2], 1>>

\* ImageView::new_default(self.images[image_index as usize].clone()), the
\* descriptor set and the command buffer; every call is unwrapped.
StepRecord(r, image_extent, o) ==
    IF ~Live(r) THEN r
    ELSE IF r.log.index >= r.images.count \/ o.record = "Err"
         THEN Panic(r, "record")
    ELSE [r EXCEPT !.log.view_gen = r.images.gen,
                   !.log.view_index = r.log.index,
                   !.log.grid = Dispatch(image_extent),
                   !.log.image_extent = r.swapchain.image_extent]

\* Mutant of Chain: the present is chained before the command buffer.
ChainPresentFirst(previous) ==
    [join |-> [previous |-> previous, acquire |-> TRUE],
     then |-> <<"present", "execute", "fence">>]

\* previous.join(acquire_future).then_execute(..).then_swapchain_present(..)
\*     .then_signal_fence_and_flush(): what the chain waits for, and the
\* operations it performs, in order.
Chain(previous) ==
    [join |-> [previous |-> previous, acquire |-> TRUE],
     then |-> <<"execute", "present", "fence">>]

\* self.previous_frame_end.take().unwrap() ... .then_execute(..).unwrap()
\*     .then_swapchain_present(.., swapchain_image_index(self.swapchain, image_index))
StepChain(r, o) ==
    IF ~Live(r) THEN r
    ELSE IF r.previous_frame_end.kind = "none" THEN Panic(r, "unwrap")
    ELSE LET r1 == [r EXCEPT !.log.taken = r.previous_frame_end,
                             !.previous_frame_end = None]
         IN  IF o.exec = "Err" THEN Panic(r1, "then_execute")
             ELSE [r1 EXCEPT !.log.submissions = @ + 1,
                             !.log.presents = @ + 1,
                             !.log.present_gen = r.swapchain.gen,
                             !.log.present_index = r.log.index]

\* The flushed future of this iteration, as the device sees it.
Submission(r) ==
    LET c == Chain(r.log.taken)
    IN  [id |-> NewId(r.queue), gen |-> r.log.present_gen,
         index |-> r.log.present_index,
         join |-> c.join, then |-> c.then, done |-> {}]

\* Mutant of FlushOk: the flushed future is queued but the slot gets `now`.
FlushOkForgetsFuture(r) ==
    [r EXCEPT !.previous_frame_end = Now,
              !.queue = Append(@, Submission(r))]

\* Ok(future) => self.previous_frame_end = Some(future.boxed())
FlushOk(r) ==
    [r EXCEPT !.previous_frame_end = FenceToken(NewId(r.queue)),
              !.queue = Append(@, Submission(r))]

\* Dropping a future that did not complete waits for the queue to go idle.
DropFuture(q) == << >>

\* Mutant of FlushOutOfDate: the slot emptied by take() is not refilled.
FlushOutOfDateLeavesEmpty(r) ==
    [r EXCEPT !.recreate_swapchain = TRUE,
              !.queue = DropFuture(@)]

\* Mutant of FlushOutOfDate: the flag is not set.
FlushOutOfDateNoFlag(r) ==
    [r EXCEPT !.previous_frame_end = Now,
              !.queue = DropFuture(@)]

\* Err(VulkanError::OutOfDate) => { self.recreate_swapchain = true;
\*     self.previous_frame_end = Some(now) }
FlushOutOfDate(r) ==
    [r EXCEPT !.recreate_swapchain = TRUE,
              !.previous_frame_end = Now,
              !.queue = DropFuture(@)]

\* Mutant of FlushErr: the error is unwrapped instead of printed.
FlushErrPanics(r) == Panic(r, "flush")

\* Err(e) => { println!("failed to flush future: {e}");
\*     self.previous_frame_end = Some(now) }
FlushErr(r) ==
    [r EXCEPT !.previous_frame_end = Now,
              !.queue = DropFuture(@)]

StepFlush(r, o) ==
    IF ~Live(r) THEN r
    ELSE LET r1 == [r EXCEPT !.log.flush = o.flush]
         IN  CASE o.flush = "Ok" -> FlushOk(r1)
               [] o.flush = "OutOfDate" -> FlushOutOfDate(r1)
               [] OTHER -> FlushErr(r1)

\* fn run(&mut self, image_extent, additional_set: None)
Run(r, image_extent, o) ==
    StepFlush(
      StepChain(
        StepRecord(
          StepSuboptimal(
            StepAcquire(
              StepRecreate(StepCleanup(r), image_extent, o),
              o)),
          image_extent, o),
        o),
      o)

\* The answers of vulkano and the driver that run tells apart.
OutcomeOk ==
    [inner_size |-> <<0, 0>>,
     recreate |-> "Ok", acquire |-> "Ok", index |-> 0, suboptimal |-> FALSE,
     record |-> "Ok", exec |-> "Ok", flush |-> "Ok"]

\* With n images: a failed recreate, the three answers of acquire, and for an
\* acquired image the unwraps after it and the three answers of the flush.
Outcomes(n) ==
    {[OutcomeOk EXCEPT !.recreate = "Err"]}
    \cup {[OutcomeOk EXCEPT !.acquire = a] : a \in {"OutOfDate", "Err"}}
    \cup UNION {
           {[OutcomeOk EXCEPT !.index = i, !.suboptimal = b, !.record = "Err"],
            [OutcomeOk EXCEPT !.index = i, !.suboptimal = b, !.exec = "Err"]}
           \cup {[OutcomeOk EXCEPT !.index = i, !.suboptimal = b, !.flush = f] :
                    f \in {"Ok", "OutOfDate", "Err"}}
           : <<i, b>> \in (0 .. n - 1) \X BOOLEAN }

\* ------------------------------------------------------------ the kernel
RECURSIVE Gcd(_, _)
Gcd(a, b) == IF b = 0 THEN a ELSE Gcd(b, a % b)

\* a as f32 / b as f32, for b > 0: the quotient, kept as a fraction in lowest
\* terms (the extents modelled are exactly representable).
F32Div(a, b) ==
    LET g == Gcd(a, b) IN [num |-> a \div g, den |-> b \div g]

\* 0.0
F32Zero == [num |-> 0, den |-> 1]

\* #[spirv(compute(threads(1, 1)))]: one invocation per workgroup, so the
\* global invocation ids of a dispatch are its workgroup ids.
GlobalIds(grid) ==
    {<<x, y, z>> : x \in 0 .. grid[1] - 1, y \in 0 .. grid[2] - 1,
                   z \in 0 .. grid[3] - 1}

\* Mutant of ShaderMain: both coordinates are divided by work_groups.x.
ShaderMainDividesByX(wg, id) ==
    [id |-> id, at |-> <<id[1], id[2]>>,
     value |-> <<F32Div(id[1], wg[1]), F32Div(id[2], wg[1]), F32Zero>>]

\* image.write(id.xy(), vec3(id.x / work_groups.x, id.y / work_groups.y, 0.0))
ShaderMain(wg, id) ==
    [id |-> id, at |-> <<id[1], id[2]>>,
     value |-> <<F32Div(id[1], wg[1]), F32Div(id[2], wg[2]), F32Zero>>]

\* ------------------------------------------------------ device selection
\* PhysicalDeviceType, the variants of the enum.
DeviceTypes == {"DiscreteGpu", "IntegratedGpu", "VirtualGpu", "Cpu", "Other"}

\* One queue family of a device: q.queue_flags.intersects(COMPUTE) and
\* p.surface_support(i, &surface).unwrap_or(false).
QueueFamily(compute, surface_support) ==
    [compute |-> compute, surface_support |-> surface_support]

\* The queue families a device can report, as followed here: none, one that
\* does both, two that do one each, and a second one that does both.
QueueFamilyProperties ==
    {<< >>,
     <<QueueFamily(TRUE, TRUE)>>,
     <<QueueFamily(TRUE, FALSE), QueueFamily(FALSE, TRUE)>>,
     <<QueueFamily(TRUE, FALSE), QueueFamily(TRUE, TRUE)>>}

\* What enumerate_physical_devices can yield.
PhysicalDevices ==
    [supported_extensions : BOOLEAN, device_type : DeviceTypes,
     queue_family_properties : QueueFamilyProperties]

\* .filter(|p| p.supported_extensions().contains(&device_extensions))
SupportsExtensions(p) == p.supported_extensions

\* .position(|(i, q)| q.queue_flags.intersects(COMPUTE)
\*     && p.surface_support(i, &surface).unwrap_or(false)): the first such
\* family, counted from 1 here; 0 is None.
QueueFamilyPosition(p) ==
    LET fit == {i \in 1 .. Len(p.queue_family_properties) :
                   /\ p.queue_family_properties[i].compute
                   /\ p.queue_family_properties[i].surface_support}
    IN  IF fit = {} THEN 0 ELSE CHOOSE i \in fit : \A j \in fit : i <= j

\* The closure of min_by_key.
DeviceTypeKey(device_type) ==
    CASE device_type = "DiscreteGpu" -> 0
      [] device_type = "IntegratedGpu" -> 1
      [] device_type = "VirtualGpu" -> 2
      [] device_type = "Cpu" -> 3
      [] device_type = "Other" -> 4
      [] OTHER -> 5

\* The candidates the two filters let through, by place in the enumeration.
Candidates(ds) ==
    {k \in 1 .. Len(ds) :
        SupportsExtensions(ds[k]) /\ QueueFamilyPosition(ds[k]) # 0}

\* Mutant of MinByKey: the first candidate is taken, whatever its type.
MinByKeyTakesFirst(ds, cand) == CHOOSE k \in cand : \A j \in cand : k <= j

\* Iterator::min_by_key: the first of the candidates with the least key.
MinByKey(ds, cand) ==
    CHOOSE k \in cand :
        \A j \in cand :
            \/ DeviceTypeKey(ds[k].device_type) < DeviceTypeKey(ds[j].device_type)
            \/ /\ DeviceTypeKey(ds[k].device_type) = DeviceTypeKey(ds[j].device_type)
               /\ k <= j

NoDevice == [state |-> "none", device |-> 0, queue_family_index |-> 0]

\* let (physical_device, queue_family_index) = instance
\*     .enumerate_physical_devices().unwrap().filter(..).filter_map(..)
\*     .min_by_key(..).expect("no suitable physical device found")
SelectDevice(ds) ==
    IF Candidates(ds) = {}
    THEN [NoDevice EXCEPT !.state = "panicked"]
    ELSE LET k == MinByKey(ds, Candidates(ds))
         IN  [state |-> "chosen", device |-> k,
              queue_family_index |-> QueueFamilyPosition(ds[k])]

\* The device the frame loop is followed on.
TheDevice ==
    [supported_extensions |-> TRUE, device_type |-> "DiscreteGpu",
     queue_family_properties |-> <<QueueFamily(TRUE, TRUE)>>]

\* ---------------------------------------------------------------- actions
\* Renderer::new: the swapchain is created at the window's size, which the
\* unwrap requires to be one a swapchain can have.
NewSwapchain(inner_size, cap_min) ==
    [gen |-> 0,
     min_image_count |-> Max(cap_min, MinImages),
     image_format |-> "B8G8R8A8_UNORM",
     image_extent |-> inner_size,
     image_usage |-> "STORAGE",
     composite_alpha |-> "Opaque"]

\* Renderer::new(window, ..): recreate_swapchain = false,
\* previous_frame_end = Some(now)
NewRenderer(inner_size, cap_min) ==
    [proc |-> "running", recreate_swapchain |-> FALSE,
     swapchain |-> NewSwapchain(inner_size, cap_min),
     images |-> NewImages(NewSwapchain(inner_size, cap_min)),
     previous_frame_end |-> Now, queue |-> << >>,
     ret |-> FALSE, blocked |-> FALSE, log |-> LogNone]

Holds(r) ==
    /\ proc = r.proc
    /\ recreate_swapchain = r.recreate_swapchain
    /\ swapchain = r.swapchain
    /\ images = r.images
    /\ previous_frame_end = r.previous_frame_end
    /\ queue = r.queue
    /\ last = r.log

Init ==
    /\ \E inner_size \in Extents, cap_min \in 1 .. MaxCapMin :
          /\ ~ContainsZero(inner_size)
          /\ Holds(NewRenderer(inner_size, cap_min))
    /\ redraw_requested = FALSE
    /\ work_groups = <<0, 0, 0>>
    /\ pixels = {}
    /\ devices = <<TheDevice>>
    /\ selected = SelectDevice(devices)

Commit(r) ==
    /\ proc' = r.proc
    /\ recreate_swapchain' = r.recreate_swapchain
    /\ swapchain' = r.swapchain
    /\ images' = r.images
    /\ previous_frame_end' = r.previous_frame_end
    /\ queue' = r.queue
    /\ last' = r.log

\* Mutant of SetRecreateSwapchain: the flag is flipped instead of assigned.
SetRecreateSwapchainFlips(r, value) == [r EXCEPT !.recreate_swapchain = ~@]

\* fn recreate_swapchain(&mut self, value: bool)
SetRecreateSwapchain(r, value) == [r EXCEPT !.recreate_swapchain = value]

\* WindowEvent::Resized(_) => renderer.recreate_swapchain(true)
Resized ==
    /\ proc = "running"
    /\ Commit([SetRecreateSwapchain(Renderer, TRUE) EXCEPT !.log.ev = "resized"])
    /\ UNCHANGED <<redraw_requested, work_groups, pixels, devices, selected>>

\* WindowEvent::CloseRequested => elwt.exit()
CloseRequested ==
    /\ proc = "running"
    /\ Commit([Gone(Renderer, "exited") EXCEPT !.log = [LogNone EXCEPT !.ev = "close"]])
    /\ UNCHANGED <<redraw_requested, work_groups, pixels, devices, selected>>

\* Mutant of Skip: only the width is tested.
SkipWidthOnly(r, image_extent) ==
    IF image_extent[1] = 0 THEN [r EXCEPT !.ret = TRUE, !.log.skipped = TRUE]
    ELSE r

\* if image_extent.contains(&0) { return; }
Skip(r, image_extent) ==
    IF ContainsZero(image_extent) THEN [r EXCEPT !.ret = TRUE, !.log.skipped = TRUE]
    ELSE r

\* WindowEvent::RedrawRequested => { let image_extent = window.inner_size();
\*     if image_extent.contains(&0) { return; } renderer.run(image_extent, None) }
OnRedraw(r, image_extent, o) ==
    LET r0 == Skip([r EXCEPT !.log.extent = image_extent], image_extent)
    IN  IF r0.ret THEN r0 ELSE Run(r0, image_extent, o)

\* window.inner_size() is whatever size the window has when the event is
\* handled.
RedrawRequested ==
    /\ proc = "running"
    /\ redraw_requested
    /\ \E inner_size \in Extents, o \in Outcomes(images.count) :
          /\ o.recreate = "Err" =>
                 recreate_swapchain /\ ~ContainsZero(inner_size)
          /\ ContainsZero(inner_size) => o = OutcomeOk
          /\ \E r \in {OnRedraw(Renderer, inner_size, o)} :
                /\ ~r.blocked
                /\ Len(r.queue) <= MaxInFlight
                /\ r.swapchain.gen <= MaxGen
                /\ Commit(r)
    /\ redraw_requested' = FALSE
    /\ UNCHANGED <<work_groups, pixels, devices, selected>>

\* Event::AboutToWait => window.request_redraw()
AboutToWait ==
    /\ proc = "running"
    /\ redraw_requested' = TRUE
    /\ last' = [LogNone EXCEPT !.ev = "about_to_wait"]
    /\ UNCHANGED <<proc, recreate_swapchain, swapchain, images,
                   previous_frame_end, queue, work_groups, pixels, devices,
                   selected>>

\* The presentation engine signals that an acquired image is ready (followed
\* from the moment the chain that waits for it is the device's next).
AcquireReady ==
    /\ proc = "running"
    /\ \E k \in 1 .. Len(queue) :
          /\ "acquire" \notin queue[k].done
          /\ TokenSignalled(queue[k].join.previous, queue)
          /\ queue' = [queue EXCEPT ![k].done = @ \cup {"acquire"}]
    /\ last' = [LogNone EXCEPT !.ev = "device"]
    /\ UNCHANGED <<proc, redraw_requested, recreate_swapchain, swapchain,
                   images, previous_frame_end, work_groups, pixels, devices,
                   selected>>

\* The device performs the next operation of a flushed future.
DeviceStep ==
    /\ proc = "running"
    /\ \E k \in 1 .. Len(queue) :
          /\ MayRun(queue[k], NextOp(queue[k]), queue)
          /\ queue' = [queue EXCEPT ![k].done = @ \cup {NextOp(queue[k])}]
    /\ last' = [LogNone EXCEPT !.ev = "device"]
    /\ UNCHANGED <<proc, redraw_requested, recreate_swapchain, swapchain,
                   images, previous_frame_end, work_groups, pixels, devices,
                   selected>>

Next ==
    \/ Resized
    \/ CloseRequested
    \/ RedrawRequested
    \/ AboutToWait
    \/ AcquireReady
    \/ DeviceStep

Spec == Init /\ [][Next]_vars

\* ------------------------------------------- the kernel's specification
\* One dispatch of run: the first redraw, at every extent it can pass and
\* every extent the swapchain can have, executed one invocation at a time in
\* any order.
InitShader ==
    /\ \E w \in 1 .. MaxGridW, h \in 1 .. MaxGridH, inner_size \in Extents :
          /\ ~ContainsZero(inner_size)
          /\ Holds(OnRedraw(NewRenderer(inner_size, MinImages), <<w, h>>,
                            OutcomeOk))
    /\ redraw_requested = FALSE
    /\ work_groups = last.grid
    /\ pixels = {}
    /\ devices = <<TheDevice>>
    /\ selected = SelectDevice(devices)

Invoke ==
    /\ \E id \in GlobalIds(work_groups) :
          /\ \A p \in pixels : p.id # id
          /\ pixels' = pixels \cup {ShaderMain(work_groups, id)}
    /\ UNCHANGED <<driver, work_groups, devices, selected>>

NextShader == Invoke

SpecShader == InitShader /\ [][NextShader]_vars

\* ------------------------------------ device selection's specification
\* Renderer::new up to the selection: the instance has enumerated some
\* devices, then the selection runs once over them.
Starting == Gone(NewRenderer(<<1, 1>>, MinImages), "starting")

InitSelect ==
    /\ Holds(Starting)
    /\ redraw_requested = FALSE
    /\ work_groups = <<0, 0, 0>>
    /\ pixels = {}
    /\ devices = << >>
    /\ selected = NoDevice

EnumeratePhysicalDevice ==
    /\ selected.state = "none"
    /\ Len(devices) < MaxDevices
    /\ \E p \in PhysicalDevices : devices' = Append(devices, p)
    /\ UNCHANGED <<driver, work_groups, pixels, selected>>

SelectPhysicalDevice ==
    /\ selected.state = "none"
    /\ selected' = SelectDevice(devices)
    /\ proc' = IF selected'.state = "panicked" THEN "panicked" ELSE proc
    /\ UNCHANGED <<redraw_requested, recreate_swapchain, swapchain, images,
                   previous_frame_end, queue, last, work_groups, pixels,
                   devices>>

NextSelect == EnumeratePhysicalDevice \/ SelectPhysicalDevice

SpecSelect == InitSelect /\ [][NextSelect]_vars

\* ------------------------------------------------------------ the claims
\* An on_redraw iteration has just returned to the event loop.
Returned == proc = "running" /\ last.ev = "redraw"

\* The submissions the device has not finished.
Outstanding == {k \in 1 .. Len(queue) : "fence" \notin queue[k].done}

\* C1: an iteration whose acquisition reports OutOfDate issues no submission
\* and no present request, returns, and leaves the Dirty Flag set, whatever
\* the flag was before and whether or not the iteration rebuilt the Surface.
C1_StaleAcquireAborts ==
    (last.ev = "redraw" /\ last.acquire = "OutOfDate") =>
        /\ proc = "running"
        /\ last.submissions = 0
        /\ last.presents = 0
        /\ last.flush = "none"
        /\ recreate_swapchain

C1_Witness ==
    /\ Returned
    /\ last.acquire = "OutOfDate"
    /\ last.dirty_before
    /\ last.rebuilt
    /\ recreate_swapchain

\* C2 as stated: after the Dirty Flag was set, a redraw with a non-zero
\* extent that returns leaves the Surface at that extent and the flag clear.
C2_Original ==
    (Returned /\ last.dirty_before /\ ~last.skipped) =>
        /\ swapchain.image_extent = last.extent
        /\ ~recreate_swapchain

\* C2 amended: after the Dirty Flag was set, a redraw with a non-zero extent
\* that returns has rebuilt the Surface at that extent; the flag is clear on
\* return exactly when the acquisition was neither stale nor suboptimal and
\* the flush did not report out-of-date.
C2_RebuildAtExtent ==
    (Returned /\ last.dirty_before /\ ~last.skipped) =>
        /\ last.rebuilt
        /\ swapchain.image_extent = last.extent
        /\ images.gen = swapchain.gen
        /\ recreate_swapchain <=>
              \/ last.acquire = "OutOfDate"
              \/ last.suboptimal
              \/ last.flush = "OutOfDate"

C2_Witness ==
    /\ Returned
    /\ last.dirty_before
    /\ last.rebuilt
    /\ last.flush = "Ok"
    /\ ~recreate_swapchain
    /\ swapchain.gen = 1
    /\ swapchain.image_extent = <<MaxWidth, MaxHeight>>

\* C3 as stated: never two submissions outstanding at the same time.
C3_Original == Cardinality(Outstanding) <= 1

\* C3 amended: the Frame Driver holds one In-Flight Token, in its one slot,
\* and every submission still on the device is reached from it: the newest is
\* the slot's token and each other one is what the next was chained after.
\* More than one can be outstanding (run does not wait for the frame before),
\* each writing a different image of its swapchain until it is presented.
C3_OneTokenChain ==
    proc = "running" =>
        /\ previous_frame_end.kind \in {"now", "fence", "cleaned"}
        /\ queue # << >> => previous_frame_end = FenceToken(queue[Len(queue)].id)
        /\ queue = << >> => previous_frame_end.kind \in {"now", "cleaned"}
        /\ \A k \in 1 .. Len(queue) :
              /\ queue[k].id = k
              /\ k > 1 => queue[k].join.previous = FenceToken(queue[k - 1].id)
              /\ k = 1 => queue[k].join.previous.kind \in {"now", "cleaned"}
        /\ \A j, k \in 1 .. Len(queue) :
              (j < k /\ queue[j].gen = queue[k].gen
                     /\ queue[j].index = queue[k].index)
                 => "present" \in queue[j].done

C3_Witness ==
    /\ Returned
    /\ Len(queue) = 2
    /\ Cardinality(Outstanding) = 2
    /\ queue[1].done = {}

\* C4: when the flush of the chained submission and present fails with an
\* error other than out-of-date, the process aborts in that iteration.
C4_FlushErrorFatal ==
    (last.ev = "redraw" /\ last.flush = "Err") => proc = "panicked"

\* C5: the index an iteration acquires, the image it binds to the kernel and
\* the swapchain it names in the present request are of one Surface
\* generation, the current one, and the images always belong to the current
\* swapchain.
C5_IndexWithinGeneration ==
    /\ proc = "running" => images.gen = swapchain.gen
    /\ (last.ev = "redraw" /\ last.submissions = 1) =>
          /\ last.view_gen = last.index_gen
          /\ last.present_gen = last.index_gen
          /\ last.view_index = last.index
          /\ last.present_index = last.index
          /\ last.index < images.count
    /\ (Returned /\ last.submissions = 1) => last.index_gen = swapchain.gen

C5_Witness ==
    /\ Returned
    /\ last.rebuilt
    /\ last.submissions = 1
    /\ last.index_gen = MaxGen
    /\ \E k \in 1 .. Len(queue) : queue[k].gen < MaxGen

\* C6: every dispatch an iteration submits has a grid no larger than the
\* extent of the swapchain whose image it writes.
C6_GridWithinImage ==
    (Returned /\ last.flush = "Ok") =>
        /\ last.grid[1] <= last.image_extent[1]
        /\ last.grid[2] <= last.image_extent[2]

\* C7: a redraw whose extent has a zero width or height is skipped: nothing
\* is acquired, submitted or presented, and the Dirty Flag, the Surface, the
\* In-Flight Token and the device queue are what they were.
C7_ZeroExtentNoOp ==
    [][(last'.ev = "redraw" /\ ContainsZero(last'.extent)) =>
          /\ last'.skipped
          /\ last'.acquire = "none"
          /\ last'.submissions = 0
          /\ last'.presents = 0
          /\ ~last'.rebuilt
          /\ proc' = "running"
          /\ UNCHANGED <<recreate_swapchain, swapchain, images,
                         previous_frame_end, queue>>]_vars

C7_Witness ==
    /\ Returned
    /\ last.skipped
    /\ last.extent = <<MaxWidth, 0>>
    /\ recreate_swapchain
    /\ Cardinality(Outstanding) > 0

\* C8: the dispatch of on_redraw(W, H) has W x H x 1 workgroups; every
\* invocation writes, at its own (x, y) with x < W and y < H, the value
\* (x/W, y/H, 0); no pixel is written twice, and once every invocation has
\* run every pixel of the W x H range is written.
C8_KernelGradient ==
    LET W == last.extent[1]
        H == last.extent[2]
    IN  /\ work_groups = <<W, H, 1>>
        /\ \A p \in pixels :
              /\ p.at[1] \in 0 .. W - 1 /\ p.at[2] \in 0 .. H - 1
              /\ p.value[1].den > 0 /\ p.value[2].den > 0
              /\ p.value[1].num * W = p.at[1] * p.value[1].den
              /\ p.value[2].num * H = p.at[2] * p.value[2].den
              /\ p.value[3].num = 0
        /\ \A p1, p2 \in pixels : p1.at = p2.at => p1 = p2
        /\ Cardinality(pixels) <= W * H
        /\ Cardinality(pixels) = W * H =>
              \A x \in 0 .. W - 1, y \in 0 .. H - 1 :
                  \E p \in pixels : p.at = <<x, y>>

C8_Witness ==
    /\ last.extent = <<4, 2>>
    /\ last.flush = "Ok"
    /\ Cardinality(pixels) = 8
    /\ \E p \in pixels :
          /\ p.at = <<2, 1>>
          /\ p.value = <<[num |-> 1, den |-> 2], [num |-> 1, den |-> 2],
                         [num |-> 0, den |-> 1]>>

\* C9: for every submitted frame, the dispatch runs only after the frame's
\* acquisition signal and after the token of the frame before is complete,
\* the present only after the dispatch, and the frame's fence is signalled
\* only after both; each frame is chained after the token of the frame
\* submitted before it.
C9_FrameOrder ==
    /\ \A k \in 1 .. Len(queue) :
          LET s == queue[k]
          IN  /\ "execute" \in s.done =>
                    /\ "acquire" \in s.done
                    /\ TokenSignalled(s.join.previous, queue)
              /\ "present" \in s.done => "execute" \in s.done
              /\ "fence" \in s.done => {"execute", "present"} \subseteq s.done
              /\ k > 1 => s.join.previous = FenceToken(k - 1)
              /\ k > 1 /\ "execute" \in s.done =>
                    "fence" \in queue[k - 1].done
    /\ (Returned /\ last.flush = "Ok") =>
          queue[Len(queue)].join = [previous |-> last.taken, acquire |-> TRUE]

C9_Witness ==
    /\ Len(queue) = 2
    /\ queue[2].done = {"acquire", "execute", "present", "fence"}
    /\ queue[1].done = {"acquire", "execute", "present", "fence"}

\* C10: an iteration that acquires an image and returns has issued exactly
\* one submission and exactly one present request, both for the acquired
\* index; no iteration issues more than one of either; a skipped iteration
\* and one aborted by a stale acquisition issue none.
C10_OneSubmitOnePresent ==
    last.ev = "redraw" =>
        /\ last.submissions <= 1 /\ last.presents <= 1
        /\ (proc = "running" /\ last.acquire = "Ok") =>
              /\ last.submissions = 1
              /\ last.presents = 1
              /\ last.flush # "none"
        /\ last.submissions = 1 =>
              /\ last.acquire = "Ok"
              /\ last.view_index = last.index
        /\ last.presents = 1 =>
              /\ last.submissions = 1
              /\ last.present_index = last.index
        /\ (last.skipped \/ last.acquire = "OutOfDate") =>
              last.submissions = 0 /\ last.presents = 0
        /\ (Returned /\ last.flush = "Ok") =>
              queue[Len(queue)].index = last.index

C10_Witness ==
    /\ Returned
    /\ last.acquire = "Ok"
    /\ last.index = 1
    /\ last.submissions = 1
    /\ last.presents = 1
    /\ last.flush = "OutOfDate"

\* The order of preference of the device types, most preferred first.
Preference == <<"DiscreteGpu", "IntegratedGpu", "VirtualGpu", "Cpu", "Other">>

Rank(device_type) == CHOOSE n \in 1 .. Len(Preference) : Preference[n] = device_type

\* A device qualifies when it supports the required extensions and has a
\* queue family that does compute and can present to the surface.
Qualifies(p) ==
    /\ p.supported_extensions
    /\ \E i \in 1 .. Len(p.queue_family_properties) :
          /\ p.queue_family_properties[i].compute
          /\ p.queue_family_properties[i].surface_support

\* C11: the device selected qualifies, its queue family does compute and can
\* present, and no qualifying device has a more preferred type; the
\* selection panics exactly when no enumerated device qualifies.
C11_DeviceSelection ==
    /\ selected.state = "chosen" =>
          LET p == devices[selected.device]
              q == p.queue_family_properties[selected.queue_family_index]
          IN  /\ Qualifies(p)
              /\ q.compute /\ q.surface_support
              /\ \A k \in 1 .. Len(devices) :
                    Qualifies(devices[k]) =>
                        Rank(p.device_type) <= Rank(devices[k].device_type)
              /\ proc # "panicked"
    /\ selected.state = "panicked" =>
          /\ \A k \in 1 .. Len(devices) : ~Qualifies(devices[k])
          /\ proc = "panicked"
    /\ selected.state \in {"none", "chosen", "panicked"}

C11_Witness ==
    /\ selected.state = "chosen"
    /\ selected.device = 2
    /\ selected.queue_family_index = 2
    /\ devices[1].device_type = "DiscreteGpu"
    /\ ~Qualifies(devices[1])
    /\ devices[2].device_type = "Cpu"

\* C12: a Resized event, a stale acquisition and an out-of-date present each
\* leave the Dirty Flag set; while it is set, nothing but a redraw with a
\* non-zero extent changes the flag or the Surface or submits anything; and
\* that redraw rebuilds the Surface at its extent before it acquires, so what
\* it submits is against the new generation, never the one the flag was set
\* for (or the process aborts in the recreate).
C12_RebuildBeforeNextFrame ==
    [][/\ (/\ proc' = "running"
           /\ \/ last'.ev = "resized"
              \/ /\ last'.ev = "redraw"
                 /\ last'.acquire = "OutOfDate" \/ last'.flush = "OutOfDate")
          => recreate_swapchain'
       /\ (recreate_swapchain /\ last'.ev = "redraw" /\ ~last'.skipped) =>
             \/ last'.fatal = "recreate"
             \/ /\ last'.rebuilt
                /\ last'.acquire # "none"
                /\ last'.submissions = 1 =>
                      /\ last'.index_gen = swapchain.gen + 1
                      /\ last'.present_gen = swapchain.gen + 1
                      /\ last'.image_extent = last'.extent
                /\ proc' = "running" =>
                      /\ swapchain'.gen = swapchain.gen + 1
                      /\ swapchain'.image_extent = last'.extent
                      /\ \A k \in 1 .. Len(queue') :
                            queue'[k].gen = swapchain.gen =>
                                \E j \in 1 .. Len(queue) :
                                    /\ queue[j].gen = queue'[k].gen
                                    /\ queue[j].index = queue'[k].index
       /\ (/\ recreate_swapchain
           /\ proc' = "running"
           /\ ~(last'.ev = "redraw" /\ ~last'.skipped))
          => /\ recreate_swapchain'
             /\ swapchain' = swapchain
             /\ last'.submissions = 0
             /\ Len(queue') = Len(queue)]_vars

C12_Witness ==
    /\ Returned
    /\ last.dirty_before
    /\ last.rebuilt
    /\ last.extent = <<1, 1>>
    /\ last.flush = "Ok"
    /\ ~recreate_swapchain
    /\ Len(queue) = 2
    /\ queue[1].gen = 0
    /\ queue[2].gen = 1

\* C13: an iteration whose acquisition is valid but suboptimal goes on: if it
\* returns it has issued the one submission and the one present for the image
\* it acquired, on the Surface it acquired from, and the Dirty Flag is set on
\* return whatever the flush answered; a redraw with a non-zero extent that
\* finds the flag set rebuilds the Surface (or aborts in the recreate).
C13_SuboptimalProceeds ==
    [][/\ (last'.ev = "redraw" /\ last'.suboptimal) =>
             /\ last'.acquire = "Ok"
             /\ proc' = "running" =>
                   /\ last'.submissions = 1
                   /\ last'.presents = 1
                   /\ last'.view_index = last'.index
                   /\ last'.present_index = last'.index
                   /\ last'.present_gen = last'.index_gen
                   /\ last'.flush \in {"Ok", "OutOfDate", "Err"}
                   /\ recreate_swapchain'
                   /\ last'.flush = "Ok" =>
                         /\ queue'[Len(queue')].index = last'.index
                         /\ queue'[Len(queue')].then =
                               <<"execute", "present", "fence">>
       /\ (recreate_swapchain /\ last'.ev = "redraw" /\ ~last'.skipped) =>
             last'.rebuilt \/ last'.fatal = "recreate"]_vars

C13_Witness ==
    /\ Returned
    /\ ~last.dirty_before
    /\ last.suboptimal
    /\ last.index = 1
    /\ last.submissions = 1
    /\ last.flush = "Ok"
    /\ recreate_swapchain
    /\ queue[Len(queue)].index = 1

\* C14: while the process runs, the Dirty Flag goes from set to clear only in
\* a redraw iteration that replaced the swapchain and the images together by
\* ones created at that iteration's extent; the Resized handler leaves the
\* flag set, changes nothing else of the Renderer or the device, and doing it
\* twice gives what doing it once gives.
C14_FlagClearedOnlyByRebuild ==
    [][/\ (recreate_swapchain /\ ~recreate_swapchain' /\ proc' = "running") =>
             /\ last'.ev = "redraw"
             /\ ~last'.skipped
             /\ last'.rebuilt
             /\ swapchain'.gen = swapchain.gen + 1
             /\ images'.gen = swapchain'.gen
             /\ images'.count = swapchain'.min_image_count
             /\ swapchain'.image_extent = last'.extent
       /\ (last'.ev = "redraw" /\ last'.rebuilt /\ proc' = "running") =>
             /\ recreate_swapchain
             /\ images'.gen = swapchain'.gen
             /\ swapchain'.image_extent = last'.extent
       /\ last'.ev = "resized" =>
             /\ recreate_swapchain'
             /\ UNCHANGED <<proc, redraw_requested, swapchain, images,
                            previous_frame_end, queue>>
       /\ LET once == SetRecreateSwapchain(Renderer, TRUE)
          IN  /\ SetRecreateSwapchain(once, TRUE) = once
              /\ once = [Renderer EXCEPT !.recreate_swapchain = TRUE]]_vars

C14_Witness ==
    /\ Returned
    /\ last.dirty_before
    /\ last.rebuilt
    /\ last.flush = "Err"
    /\ ~last.suboptimal
    /\ ~recreate_swapchain
    /\ images.gen = swapchain.gen
    /\ swapchain.gen = MaxGen
    /\ swapchain.image_extent = last.extent

\* The creation parameters of a swapchain other than its extent.
CreateParameters(sc) ==
    <<sc.min_image_count, sc.image_format, sc.image_usage, sc.composite_alpha>>

\* C15: the swapchain the Renderer holds, the first and every rebuilt one, has
\* storage usage and a minimum image count of at least 2, and its images are
\* that many; the swapchain changes only in a redraw that rebuilds it, to the
\* next generation at that redraw's extent with every other creation
\* parameter as it was.
C15_SurfaceParameters ==
    [][/\ proc = "running" =>
             /\ swapchain.image_usage = "STORAGE"
             /\ swapchain.min_image_count >= 2
             /\ images.count >= 2
       /\ proc' = "running" =>
             /\ swapchain'.image_usage = "STORAGE"
             /\ swapchain'.min_image_count >= 2
             /\ images'.count >= 2
             /\ CreateParameters(swapchain') = CreateParameters(swapchain)
             /\ images'.count = images.count
             /\ swapchain' # swapchain =>
                   /\ last'.ev = "redraw"
                   /\ last'.rebuilt
                   /\ swapchain' = [swapchain EXCEPT
                                       !.gen = @ + 1,
                                       !.image_extent = last'.extent]]_vars

C15_Witness ==
    /\ Returned
    /\ last.rebuilt
    /\ swapchain.gen = MaxGen
    /\ swapchain.image_extent = <<MaxWidth, MaxHeight>>
    /\ last.extent = <<MaxWidth, MaxHeight>>
    /\ CreateParameters(swapchain) =
          <<MinImages, "B8G8R8A8_UNORM", "STORAGE", "Opaque">>
    /\ images = [gen |-> MaxGen, count |-> MinImages]

C17_TokenSlotFilled ==
    /\ proc = "running" => previous_frame_end.kind \in {"now", "fence", "cleaned"}
    /\ last.fatal # "unwrap"
    /\ Returned =>
          /\ (last.skipped \/ last.acquire = "OutOfDate") => last.taken = None
          /\ last.flush = "Ok" =>
                /\ last.taken # None
                /\ previous_frame_end = FenceToken(Len(queue))
                /\ queue[Len(queue)].join.previous = last.taken
          /\ last.flush \in {"OutOfDate", "Err"} =>
                /\ last.taken # None
                /\ previous_frame_end = Now

C17_Witness ==
    /\ Returned
    /\ ~last.dirty_before
    /\ last.acquire = "OutOfDate"
    /\ last.taken = None
    /\ previous_frame_end = FenceToken(1)
    /\ Len(queue) = 1
    /\ queue[1].done = {}

====
